---------------------------- MODULE Spec2Model ----------------------------
(***************************************************************************)
(* Model of the query codec and mutator of spring-data-dynamic-query-ui    *)
(* (lib/utils/query-builder): the QueryBuilder class, toQueryString,       *)
(* fromQueryString and the exported helpers parseQueryString and           *)
(* toQueryString.  Strings are TLA+ strings; characters are strings of     *)
(* length one taken with SubSeq.                                           *)
(***************************************************************************)
EXTENDS Integers, Sequences, FiniteSets, TLC

VARIABLES
    query,      \* QueryBuilder._dynamicQuery
    qs,         \* the query string the last call returned or was given, "" when it had none
    thrown,     \* TRUE when the last call ended by throwing (URIError)
    last,       \* the name of the last call
    ret,        \* what the last getCriteriaValues or hasCriteria call returned
    objects,    \* the DynamicQuery objects of the heap, by object identity
    owner,      \* for each QueryBuilder instance, the identity of its _dynamicQuery
    url,        \* the query string of the browser URL (DynamicQueryTable)
    phase,      \* how far DynamicQueryTable has got: "mounted", "ready", "crashed"
    loading,    \* the state loading of DynamicQueryTable
    data,       \* the state data of DynamicQueryTable: the response displayed
    pending,    \* the fetchData calls waiting for their response, oldest first
    issued,     \* the query string of the request fetchData sent last
    panel,      \* FilterPanel: isExpanded, isPinned and the localStorage item
    pager,      \* Pagination: its props and the page its last click asked for
    form        \* Form: its props, its state and the onSubmit call in flight

vars == <<query, qs, thrown, last, ret, objects, owner, url, phase, loading, data, pending,
          issued, panel, pager, form>>

\* one QueryBuilder used on its own
builderVars == <<query, qs, thrown, last, ret>>

\* several QueryBuilder instances and the objects they refer to
heapVars == <<objects, owner>>

\* the fetches of DynamicQueryTable
fetchVars == <<loading, data, pending, issued>>

\* the components FilterPanel, Pagination and Form
widgetVars == <<panel, pager, form>>

\* the components
tableVars == <<url, phase, loading, data, pending, issued, panel, pager, form>>

-----------------------------------------------------------------------------
(* Bounds of the model *)

\* longest criteria list the mutator actions build
MaxCriteria == 3
\* most fragments joined by '&' in a query string given to parseQueryString
MaxParams == 3

-----------------------------------------------------------------------------
(* Characters *)

\* the printable ASCII characters of code 32 (space) to 95 (_), in code order
AsciiLow == " !\"#$%&'()*+,-./0123456789:;<=>?@ABCDEFGHIJKLMNOPQRSTUVWXYZ[\\]^_"

\* the printable ASCII characters of code 97 (a) to 126 (~), in code order
AsciiHigh == "abcdefghijklmnopqrstuvwxyz{|}~"

CharAt(s, i) == SubSeq(s, i, i)

Rest(s, i) == SubSeq(s, i, Len(s))

\* stand-in for every character the two tables do not hold (control characters,
\* the grave accent, U+FFFD); no input of the model holds an escape producing one
OtherChar == "?"

CharOfCode(n) ==
    IF n \in 32..95 THEN CharAt(AsciiLow, n - 31)
    ELSE IF n \in 97..126 THEN CharAt(AsciiHigh, n - 96)
    ELSE OtherChar

\* code of each printable ASCII character of the two tables
CodeTable == [c \in {CharOfCode(n) : n \in (32..126) \ {96}} |->
                 CHOOSE n \in (32..126) \ {96} : CharOfCode(n) = c]

CharCode(c) == CodeTable[c]

HexDigits == "0123456789ABCDEF"

LowerHexDigits == "0123456789abcdef"

\* value of each hexadecimal digit, upper or lower case
HexTable == [c \in {CharAt(HexDigits, i) : i \in 1..16} \cup {CharAt(LowerHexDigits, i) : i \in 1..16} |->
                (CHOOSE i \in 1..16 : CharAt(HexDigits, i) = c \/ CharAt(LowerHexDigits, i) = c) - 1]

IsHex(c) == c \in DOMAIN HexTable

HexVal(c) == HexTable[c]

IsDigit(c) == c \in {"0", "1", "2", "3", "4", "5", "6", "7", "8", "9"}

DigitVal(c) == HexTable[c]

\* the characters the application/x-www-form-urlencoded serializer leaves as
\* they are: ASCII alphanumerics and * - . _
UrlSafeChars == {CharOfCode(n) : n \in (48..57) \cup (65..90) \cup (97..122) \cup {42, 45, 46, 95}}

IsUrlSafe(c) == c \in UrlSafeChars

-----------------------------------------------------------------------------
(* Strings: String.prototype.split, Number.prototype.toString, parseInt *)

\* position of the first occurrence of sep in s, 0 when there is none
IndexOf(s, sep) ==
    LET hits == {i \in 1..(Len(s) - Len(sep) + 1) : SubSeq(s, i, i + Len(sep) - 1) = sep}
    IN  IF hits = {} THEN 0 ELSE CHOOSE i \in hits : \A j \in hits : i <= j

RECURSIVE Split(_, _)
\* s.split(sep) for a non-empty separator: always at least one piece
Split(s, sep) ==
    LET i == IndexOf(s, sep)
    IN  IF i = 0 THEN <<s>>
        ELSE <<SubSeq(s, 1, i - 1)>> \o Split(Rest(s, i + Len(sep)), sep)

RECURSIVE NatToString(_)
NatToString(n) ==
    IF n < 10 THEN CharAt(HexDigits, n + 1)
    ELSE NatToString(n \div 10) \o CharAt(HexDigits, (n % 10) + 1)

\* a number field of DynamicQuery: undefined, NaN or an integer
Undefined == [kind |-> "undefined", n |-> 0]

NaN == [kind |-> "NaN", n |-> 0]

Num(n) == [kind |-> "number", n |-> n]

\* Number.prototype.toString of a defined number field
NumberToString(v) ==
    IF v.kind = "NaN" THEN "NaN"
    ELSE IF v.n < 0 THEN "-" \o NatToString(0 - v.n)
    ELSE NatToString(v.n)

RECURSIVE SkipSpaces(_)
SkipSpaces(s) == IF Len(s) > 0 /\ CharAt(s, 1) = " " THEN SkipSpaces(Rest(s, 2)) ELSE s

RECURSIVE DigitsValue(_, _)
\* value of the longest prefix of decimal digits of s, read after acc
DigitsValue(s, acc) ==
    IF Len(s) > 0 /\ IsDigit(CharAt(s, 1))
    THEN DigitsValue(Rest(s, 2), 10 * acc + DigitVal(CharAt(s, 1)))
    ELSE acc

\* parseInt(s, 10): leading white space, an optional sign, then the longest
\* prefix of digits; NaN when there is no digit
parseInt(s) ==
    LET t == SkipSpaces(s)
        neg == Len(t) > 0 /\ CharAt(t, 1) = "-"
        u == IF Len(t) > 0 /\ CharAt(t, 1) \in {"-", "+"} THEN Rest(t, 2) ELSE t
    IN  IF Len(u) = 0 \/ ~IsDigit(CharAt(u, 1)) THEN NaN
        ELSE IF neg THEN Num(0 - DigitsValue(u, 0))
        ELSE Num(DigitsValue(u, 0))

-----------------------------------------------------------------------------
(* URLSearchParams and decodeURIComponent *)

RECURSIVE UrlEncode(_)
\* the application/x-www-form-urlencoded serializer of one name or value
UrlEncode(s) ==
    IF Len(s) = 0 THEN ""
    ELSE LET c == CharAt(s, 1)
             n == CharCode(c)
             e == IF IsUrlSafe(c) THEN c
                  ELSE IF c = " " THEN "+"
                  ELSE "%" \o CharAt(HexDigits, (n \div 16) + 1) \o CharAt(HexDigits, (n % 16) + 1)
         IN  e \o UrlEncode(Rest(s, 2))

RECURSIVE JoinParams(_)
JoinParams(params) ==
    IF Len(params) = 0 THEN ""
    ELSE UrlEncode(params[1].name) \o "=" \o UrlEncode(params[1].value)
         \o (IF Len(params) > 1 THEN "&" ELSE "") \o JoinParams(Tail(params))

\* URLSearchParams.prototype.toString
URLSearchParamsToString(params) == JoinParams(params)

RECURSIVE PercentDecode(_)
\* percent-decoding of the URL parser: an escape that is not % and two hex
\* digits stays as it is
PercentDecode(s) ==
    IF Len(s) = 0 THEN ""
    ELSE IF CharAt(s, 1) = "%" /\ Len(s) >= 3 /\ IsHex(CharAt(s, 2)) /\ IsHex(CharAt(s, 3))
    THEN CharOfCode(16 * HexVal(CharAt(s, 2)) + HexVal(CharAt(s, 3))) \o PercentDecode(Rest(s, 4))
    ELSE (IF CharAt(s, 1) = "+" THEN " " ELSE CharAt(s, 1)) \o PercentDecode(Rest(s, 2))

RECURSIVE ParsePairs(_)
ParsePairs(pieces) ==
    IF Len(pieces) = 0 THEN <<>>
    ELSE LET p == pieces[1]
             i == IndexOf(p, "=")
             name == IF i = 0 THEN p ELSE SubSeq(p, 1, i - 1)
             value == IF i = 0 THEN "" ELSE Rest(p, i + 1)
         IN  (IF Len(p) = 0 THEN <<>>
              ELSE <<[name |-> PercentDecode(name), value |-> PercentDecode(value)]>>)
             \o ParsePairs(Tail(pieces))

\* new URLSearchParams(string): a leading ? is dropped, the string is cut at
\* every &, empty pieces are skipped, each piece is cut at its first =
URLSearchParams(s) ==
    ParsePairs(Split(IF Len(s) > 0 /\ CharAt(s, 1) = "?" THEN Rest(s, 2) ELSE s, "&"))

\* URLSearchParams.prototype.has
ParamsHas(params, name) == \E i \in 1..Len(params) : params[i].name = name

\* URLSearchParams.prototype.get: the first value of that name
ParamsGet(params, name) ==
    params[CHOOSE i \in 1..Len(params) :
               params[i].name = name /\ \A j \in 1..(i - 1) : params[j].name # name].value

RECURSIVE decodeURIComponent(_)
\* decodeURIComponent: [thrown |-> TRUE] stands for the URIError of a % that is
\* not followed by two hex digits or that escapes a byte of 128 and more
decodeURIComponent(s) ==
    IF Len(s) = 0 THEN [thrown |-> FALSE, str |-> ""]
    ELSE IF CharAt(s, 1) # "%"
    THEN LET r == decodeURIComponent(Rest(s, 2))
         IN  [thrown |-> r.thrown, str |-> CharAt(s, 1) \o r.str]
    ELSE IF Len(s) >= 3 /\ IsHex(CharAt(s, 2)) /\ IsHex(CharAt(s, 3))
            /\ 16 * HexVal(CharAt(s, 2)) + HexVal(CharAt(s, 3)) < 128
    THEN LET r == decodeURIComponent(Rest(s, 4))
         IN  [thrown |-> r.thrown,
              str |-> CharOfCode(16 * HexVal(CharAt(s, 2)) + HexVal(CharAt(s, 3))) \o r.str]
    ELSE [thrown |-> TRUE, str |-> ""]

-----------------------------------------------------------------------------
(* The query model: Criteria and DynamicQuery *)

\* an element of a JavaScript array of strings: <<>> is a hole, <<s>> holds s
Hole == <<>>

Elem(s) == <<s>>

\* an optional array field of DynamicQuery
UndefinedArray == [def |-> FALSE, items |-> <<>>]

Arr(items) == [def |-> TRUE, items |-> items]

RECURSIVE Dense(_)
\* the array holding the given strings, without a hole
Dense(strs) == IF Len(strs) = 0 THEN <<>> ELSE <<Elem(Head(strs))>> \o Dense(Tail(strs))

Criteria(key, operation, values) == [key |-> key, operation |-> operation, values |-> values]

\* the page size of a QueryBuilder constructed without an initial query
DefaultPageSize == 20

DefaultQuery ==
    [criteria |-> <<>>,
     select |-> UndefinedArray, selectAs |-> UndefinedArray,
     orderBy |-> UndefinedArray, orderByDirection |-> UndefinedArray,
     page |-> Num(0), pageSize |-> Num(DefaultPageSize)]

\* the object clear() would assign if it kept the page size of the query
ClearedKeepingPageSize ==
    [criteria |-> <<>>,
     select |-> UndefinedArray, selectAs |-> UndefinedArray,
     orderBy |-> UndefinedArray, orderByDirection |-> UndefinedArray,
     page |-> Num(0), pageSize |-> query.pageSize]

\* the object literal clear() assigns: criteria, page and pageSize, no other field
ClearedQuery ==
    [criteria |-> <<>>,
     select |-> UndefinedArray, selectAs |-> UndefinedArray,
     orderBy |-> UndefinedArray, orderByDirection |-> UndefinedArray,
     page |-> Num(0), pageSize |-> Num(20)]

KEY_FIELD == "key"

OPERATION_FIELD == "operation"

VALUES_FIELD == "values"

-----------------------------------------------------------------------------
(* toQueryString *)

RECURSIVE JoinValues(_)
JoinValues(values) ==
    IF Len(values) = 1 THEN Head(values) ELSE Head(values) \o "&&" \o JoinValues(Tail(values))

\* the values of a criterion as the file header documents them: one parameter,
\* the values joined with &&
ValuesParamsJoined(values, idx) ==
    IF Len(values) = 0 THEN <<>>
    ELSE <<[name |-> VALUES_FIELD \o NatToString(idx), value |-> JoinValues(values)]>>

RECURSIVE ValuesParams(_, _)
\* criteria.values.forEach: one appended parameter per value
ValuesParams(values, idx) ==
    IF Len(values) = 0 THEN <<>>
    ELSE <<[name |-> VALUES_FIELD \o NatToString(idx), value |-> Head(values)]>>
         \o ValuesParams(Tail(values), idx)

RECURSIVE CriteriaParams(_, _)
\* this._dynamicQuery.criteria.forEach, from array index idx on
CriteriaParams(criteria, idx) ==
    IF Len(criteria) = 0 THEN <<>>
    ELSE <<[name |-> KEY_FIELD \o NatToString(idx), value |-> Head(criteria).key],
           [name |-> OPERATION_FIELD \o NatToString(idx), value |-> Head(criteria).operation]>>
         \o ValuesParams(Head(criteria).values, idx)
         \o CriteriaParams(Tail(criteria), idx + 1)

RECURSIVE ItemsParams(_, _, _)
\* Array.prototype.forEach over an array of strings: a hole is not visited
ItemsParams(prefix, items, idx) ==
    IF Len(items) = 0 THEN <<>>
    ELSE (IF Head(items) = Hole THEN <<>>
          ELSE <<[name |-> prefix \o NatToString(idx), value |-> Head(items)[1]]>>)
         \o ItemsParams(prefix, Tail(items), idx + 1)

\* the guarded forEach of one optional array field
ArrayParams(prefix, arr) ==
    IF arr.def /\ Len(arr.items) > 0 THEN ItemsParams(prefix, arr.items, 0) ELSE <<>>

\* the guarded append of page or pageSize
NumberParams(name, v) ==
    IF v.kind # "undefined" THEN <<[name |-> name, value |-> NumberToString(v)]>> ELSE <<>>

\* the parameters toQueryString appends, in order
QueryParams(q) ==
    CriteriaParams(q.criteria, 0)
    \o ArrayParams("select", q.select)
    \o ArrayParams("selectAs", q.selectAs)
    \o ArrayParams("orderBy", q.orderBy)
    \o ArrayParams("orderByDirection", q.orderByDirection)
    \o NumberParams("page", q.page)
    \o NumberParams("pageSize", q.pageSize)

toQueryString(q) == URLSearchParamsToString(QueryParams(q))

-----------------------------------------------------------------------------
(* fromQueryString *)

\* the regular expression as it would be without its end anchor: ^prefix(\d*)
MatchIndexedPrefix(name, prefix) ==
    /\ Len(name) > Len(prefix)
    /\ SubSeq(name, 1, Len(prefix)) = prefix

\* the regular expression ^prefix(\d+)$
MatchIndexed(name, prefix) ==
    /\ Len(name) > Len(prefix)
    /\ SubSeq(name, 1, Len(prefix)) = prefix
    /\ \A i \in (Len(prefix) + 1)..Len(name) : IsDigit(CharAt(name, i))

\* parseInt of the captured digits
IndexOfName(name, prefix) == DigitsValue(Rest(name, Len(prefix) + 1), 0)

\* position in criteriaMap (kept in insertion order) of the entry of idx, 0 when none
MapPos(map, idx) ==
    IF \E i \in 1..Len(map) : map[i].idx = idx
    THEN CHOOSE i \in 1..Len(map) : map[i].idx = idx
    ELSE 0

\* criteriaMap after "if (!criteriaMap.has(idx)) criteriaMap.set(idx, fresh)"
MapEnsure(map, idx, fresh) == IF MapPos(map, idx) = 0 THEN Append(map, fresh) ELSE map

\* a Partial<Criteria> with no field set ({}), key and operation being <<>> when
\* undefined and <<s>> when set
EmptyPartial(idx) == [idx |-> idx, key |-> <<>>, operation |-> <<>>, values |-> UndefinedArray]

RECURSIVE Holes(_)
Holes(n) == IF n <= 0 THEN <<>> ELSE <<Hole>> \o Holes(n - 1)

\* array[idx] = value on a JavaScript array: the array grows, with holes, up to idx
ArraySet(items, idx, value) ==
    IF idx + 1 <= Len(items) THEN [items EXCEPT ![idx + 1] = Elem(value)]
    ELSE items \o Holes(idx - Len(items)) \o <<Elem(value)>>

\* values.push(...splitValues)
PushValues(values, splitValues) == values \o splitValues

\* one call of the params.forEach callback
ParamStep(st, p) ==
    LET key == p.name
        value == p.value
    IN  IF MatchIndexed(key, KEY_FIELD)
        THEN LET idx == IndexOfName(key, KEY_FIELD)
                 m == MapEnsure(st.map, idx, EmptyPartial(idx))
             IN  [st EXCEPT !.map = [m EXCEPT ![MapPos(m, idx)].key = <<value>>]]
        ELSE IF MatchIndexed(key, OPERATION_FIELD)
        THEN LET idx == IndexOfName(key, OPERATION_FIELD)
                 m == MapEnsure(st.map, idx, EmptyPartial(idx))
             IN  [st EXCEPT !.map = [m EXCEPT ![MapPos(m, idx)].operation = <<value>>]]
        ELSE IF MatchIndexed(key, VALUES_FIELD)
        THEN LET idx == IndexOfName(key, VALUES_FIELD)
                 m == MapEnsure(st.map, idx, [EmptyPartial(idx) EXCEPT !.values = Arr(<<>>)])
                 pos == MapPos(m, idx)
                 old == IF m[pos].values.def THEN m[pos].values.items ELSE <<>>
                 dec == decodeURIComponent(value)
             IN  IF dec.thrown
                 THEN [st EXCEPT !.map = [m EXCEPT ![pos].values = Arr(old)], !.thrown = TRUE]
                 ELSE [st EXCEPT !.map = [m EXCEPT ![pos].values = Arr(PushValues(old, Split(dec.str, "&&")))]]
        ELSE IF MatchIndexed(key, "select")
        THEN [st EXCEPT !.select = ArraySet(st.select, IndexOfName(key, "select"), value)]
        ELSE IF MatchIndexed(key, "selectAs")
        THEN [st EXCEPT !.selectAs = ArraySet(st.selectAs, IndexOfName(key, "selectAs"), value)]
        ELSE IF MatchIndexed(key, "orderBy")
        THEN [st EXCEPT !.orderBy = ArraySet(st.orderBy, IndexOfName(key, "orderBy"), value)]
        ELSE IF MatchIndexed(key, "orderByDirection")
        THEN [st EXCEPT !.orderByDirection =
                            ArraySet(st.orderByDirection, IndexOfName(key, "orderByDirection"), value)]
        ELSE st

RECURSIVE ParamsForEach(_, _)
\* params.forEach: the callbacks in parameter order, ended by the first throw
ParamsForEach(st, params) ==
    IF Len(params) = 0 \/ st.thrown THEN st
    ELSE ParamsForEach(ParamStep(st, Head(params)), Tail(params))

RECURSIVE MapToCriteria(_)
\* criteriaMap.forEach: entries in insertion order, kept when key, operation and
\* values are all truthy
MapToCriteria(map) ==
    IF Len(map) = 0 THEN <<>>
    ELSE LET c == Head(map)
         IN  (IF c.key # <<>> /\ c.key[1] # "" /\ c.operation # <<>> /\ c.operation[1] # ""
                 /\ c.values.def
              THEN <<Criteria(c.key[1], c.operation[1], c.values.items)>>
              ELSE <<>>)
             \o MapToCriteria(Tail(map))

\* the array kept also when it is empty
ArrayAlwaysDefined(items) == Arr(items)

\* "items.length > 0 ? items : undefined"
ArrayOrUndefined(items) == IF Len(items) > 0 THEN Arr(items) ELSE UndefinedArray

\* "params.has(name) ? parseInt(params.get(name)!, 10) : undefined"
NumberOrUndefined(params, name) ==
    IF ParamsHas(params, name) THEN parseInt(ParamsGet(params, name)) ELSE Undefined

\* fromQueryString: [thrown |-> TRUE] when decodeURIComponent throws, otherwise
\* the DynamicQuery built and stored
fromQueryString(queryString) ==
    LET params == URLSearchParams(queryString)
        st == ParamsForEach([map |-> <<>>, select |-> <<>>, selectAs |-> <<>>,
                             orderBy |-> <<>>, orderByDirection |-> <<>>, thrown |-> FALSE],
                            params)
    IN  IF st.thrown THEN [thrown |-> TRUE, query |-> DefaultQuery]
        ELSE [thrown |-> FALSE,
              query |-> [criteria |-> MapToCriteria(st.map),
                         select |-> ArrayOrUndefined(st.select),
                         selectAs |-> ArrayOrUndefined(st.selectAs),
                         orderBy |-> ArrayOrUndefined(st.orderBy),
                         orderByDirection |-> ArrayOrUndefined(st.orderByDirection),
                         page |-> NumberOrUndefined(params, "page"),
                         pageSize |-> NumberOrUndefined(params, "pageSize")]]

-----------------------------------------------------------------------------
(* The mutator methods of QueryBuilder, as functions of the query *)

\* removeCriteria(key, operation) when the optional operation is omitted
NoOperation == ""

\* addCriteria as it would be if it skipped a criterion that is already there
addCriteriaUnlessPresent(q, key, operation, values) ==
    IF \E i \in 1..Len(q.criteria) : q.criteria[i] = Criteria(key, operation, values)
    THEN q
    ELSE [q EXCEPT !.criteria = Append(q.criteria, Criteria(key, operation, values))]

addCriteriaTo(q, key, operation, values) ==
    [q EXCEPT !.criteria = Append(q.criteria, Criteria(key, operation, values))]

\* the filter callback as it would be if the operation were compared also when
\* it is omitted
RemoveKeepsUnlessSameOperation(c, key, operation) ==
    c.key # key \/ c.operation # operation

\* the filter callback of removeCriteria: TRUE when c is kept
RemoveKeeps(c, key, operation) ==
    c.key # key \/ (operation # NoOperation /\ c.operation # operation)

\* removeCriteria as it would be if the operation were not compared
removeCriteriaIgnoringOperation(q, key, operation) ==
    [q EXCEPT !.criteria = SelectSeq(q.criteria, LAMBDA c : c.key # key)]

removeCriteriaFrom(q, key, operation) ==
    [q EXCEPT !.criteria = SelectSeq(q.criteria, LAMBDA c : RemoveKeeps(c, key, operation))]

removeCriteriaByKeyFrom(q, key) ==
    [q EXCEPT !.criteria = SelectSeq(q.criteria, LAMBDA c : c.key # key)]

upsertCriteriaIn(q, key, operation, values) ==
    addCriteriaTo(removeCriteriaFrom(q, key, operation), key, operation, values)

\* setSort as it would be if it added the field to the sort instead of replacing it
setSortAppending(q, field, direction) ==
    [q EXCEPT !.orderBy = Arr((IF q.orderBy.def THEN q.orderBy.items ELSE <<>>) \o <<Elem(field)>>),
              !.orderByDirection =
                  Arr((IF q.orderByDirection.def THEN q.orderByDirection.items ELSE <<>>)
                      \o <<Elem(direction)>>)]

setSortOf(q, field, direction) ==
    [q EXCEPT !.orderBy = Arr(<<Elem(field)>>), !.orderByDirection = Arr(<<Elem(direction)>>)]

clearSortOf(q) == [q EXCEPT !.orderBy = UndefinedArray, !.orderByDirection = UndefinedArray]

\* the filter callback of getCriteriaValues and of hasCriteria
CriteriaMatches(c, key, operation) ==
    c.key = key /\ (operation = NoOperation \/ c.operation = operation)

RECURSIVE FlatMapValues(_)
\* criteria.flatMap((c) => c.values)
FlatMapValues(criteria) ==
    IF Len(criteria) = 0 THEN <<>> ELSE Head(criteria).values \o FlatMapValues(Tail(criteria))

\* getCriteriaValues as it would be if the operation were not compared
getCriteriaValuesByKey(q, key, operation) ==
    FlatMapValues(SelectSeq(q.criteria, LAMBDA c : c.key = key))

getCriteriaValuesOf(q, key, operation) ==
    FlatMapValues(SelectSeq(q.criteria, LAMBDA c : CriteriaMatches(c, key, operation)))

hasCriteriaIn(q, key, operation) ==
    \E i \in 1..Len(q.criteria) : CriteriaMatches(q.criteria[i], key, operation)

-----------------------------------------------------------------------------
(* Inputs of the mutator actions *)

Keys == {"age", "name"}

Operations == {"EQUAL", "GREATER_THAN"}

ValueLists == {<<"10">>, <<"20", "30">>}

\* the narrower inputs of the specification that runs every method
BuilderKeys == {"age"}

BuilderValueLists == {<<"10">>}

PageInputs == {-1, 0}

PageSizeInputs == {-5, 0}

SortFields == {"id", "name"}

Directions == {"asc", "desc"}

\* a query a caller hands to the constructor: two sort fields with one
\* direction and another page size
SortedQuery ==
    [DefaultQuery EXCEPT !.orderBy = Arr(Dense(<<"age", "id">>)),
                         !.orderByDirection = Arr(Dense(<<"asc">>)),
                         !.pageSize = Num(50)]

InitialQueries == {SortedQuery}

-----------------------------------------------------------------------------
(* Actions: one per method of QueryBuilder *)

\* no getCriteriaValues or hasCriteria call has returned since the last other call
NoReturn == [kind |-> "none", values |-> <<>>, found |-> FALSE]

\* a specification of one QueryBuilder keeps no heap and no component
NoHeap == objects = <<>> /\ owner = <<>>

\* no response is displayed: useState<SpringPage<T> | null>(null)
NoData == [def |-> FALSE, newest |-> FALSE]

NoFetch == loading = FALSE /\ data = NoData /\ pending = <<>> /\ issued = ""

\* a specification without FilterPanel, Pagination or Form
NoWidgets == panel = <<>> /\ pager = <<>> /\ form = <<>>

NoTable == url = "" /\ phase = "none" /\ NoFetch /\ NoWidgets

\* constructor(initialQuery?): the given query, or the default one
Init ==
    /\ query \in InitialQueries \cup {DefaultQuery}
    /\ qs = ""
    /\ thrown = FALSE
    /\ last = "constructor"
    /\ ret = NoReturn
    /\ NoHeap
    /\ NoTable

\* a method that returns nothing and replaces or edits the owned query
Mutate(q, op) ==
    /\ query' = q
    /\ last' = op
    /\ thrown' = FALSE
    /\ qs' = ""
    /\ ret' = NoReturn
    /\ UNCHANGED <<heapVars, tableVars>>

addCriteria(key, operation, values) ==
    /\ Len(query.criteria) < MaxCriteria
    /\ Mutate(addCriteriaTo(query, key, operation, values), "addCriteria")

removeCriteria(key, operation) ==
    Mutate(removeCriteriaFrom(query, key, operation), "removeCriteria")

removeCriteriaByKey(key) == Mutate(removeCriteriaByKeyFrom(query, key), "removeCriteriaByKey")

upsertCriteria(key, operation, values) ==
    /\ Len(upsertCriteriaIn(query, key, operation, values).criteria) <= MaxCriteria
    /\ Mutate(upsertCriteriaIn(query, key, operation, values), "upsertCriteria")

setPage(n) == Mutate([query EXCEPT !.page = Num(n)], "setPage")

\* setPageSize as it would be if it also went back to the first page
setPageSizeResettingPage(n) ==
    Mutate([query EXCEPT !.pageSize = Num(n), !.page = Num(0)], "setPageSize")

setPageSize(n) == Mutate([query EXCEPT !.pageSize = Num(n)], "setPageSize")

setSort(field, direction) == Mutate(setSortOf(query, field, direction), "setSort")

clearSort == Mutate(clearSortOf(query), "clearSort")

clearCriteria == Mutate([query EXCEPT !.criteria = <<>>], "clearCriteria")

clear == Mutate(ClearedQuery, "clear")

\* a method that returns a value and only reads the owned query
Return(r, op) ==
    /\ ret' = r
    /\ last' = op
    /\ thrown' = FALSE
    /\ qs' = ""
    /\ UNCHANGED <<query, heapVars, tableVars>>

getCriteriaValues(key, operation) ==
    Return([kind |-> "values", values |-> getCriteriaValuesOf(query, key, operation), found |-> FALSE],
           "getCriteriaValues")

hasCriteria(key, operation) ==
    Return([kind |-> "boolean", values |-> <<>>, found |-> hasCriteriaIn(query, key, operation)],
           "hasCriteria")

\* toQueryString() as it would be if it stored page 0 in a query that has no page
ToQueryStringDefaultingPage ==
    LET q == IF query.page.kind = "undefined" THEN [query EXCEPT !.page = Num(0)] ELSE query
    IN  /\ qs' = toQueryString(q)
        /\ query' = q
        /\ last' = "toQueryString"
        /\ thrown' = FALSE
        /\ ret' = NoReturn
        /\ UNCHANGED <<heapVars, tableVars>>

\* toQueryString(): the query is only read
ToQueryString ==
    /\ qs' = toQueryString(query)
    /\ last' = "toQueryString"
    /\ thrown' = FALSE
    /\ ret' = NoReturn
    /\ UNCHANGED <<query, heapVars, tableVars>>

\* fromQueryString(qs): the query is replaced unless decodeURIComponent throws.
\* The caller passes the string it holds: the one it started with, or the one
\* toQueryString has just returned.
FromQueryString ==
    LET r == fromQueryString(qs)
    IN  /\ last \in {"constructor", "toQueryString"}
        /\ query' = (IF r.thrown THEN query ELSE r.query)
        /\ thrown' = r.thrown
        /\ last' = "fromQueryString"
        /\ ret' = NoReturn
        /\ UNCHANGED <<qs, heapVars, tableVars>>

\* every method of one QueryBuilder
Next ==
    \/ \E k \in BuilderKeys, o \in Operations, v \in BuilderValueLists : addCriteria(k, o, v)
    \/ \E k \in BuilderKeys, o \in Operations \cup {NoOperation} : removeCriteria(k, o)
    \/ \E k \in BuilderKeys : removeCriteriaByKey(k)
    \/ \E k \in BuilderKeys, o \in Operations, v \in BuilderValueLists : upsertCriteria(k, o, v)
    \/ \E n \in PageInputs : setPage(n)
    \/ \E n \in PageSizeInputs : setPageSize(n)
    \/ \E f \in SortFields, d \in Directions : setSort(f, d)
    \/ clearSort
    \/ clearCriteria
    \/ clear
    \/ \E k \in BuilderKeys, o \in Operations \cup {NoOperation} : getCriteriaValues(k, o)
    \/ \E k \in BuilderKeys, o \in Operations \cup {NoOperation} : hasCriteria(k, o)
    \/ ToQueryString
    \/ FromQueryString

Spec == Init /\ [][Next]_vars

\* the criteria methods of a QueryBuilder constructed without an initial query
InitCriteria ==
    /\ query = DefaultQuery
    /\ qs = ""
    /\ thrown = FALSE
    /\ last = "constructor"
    /\ ret = NoReturn
    /\ NoHeap
    /\ NoTable

NextCriteria ==
    \/ \E k \in Keys, o \in Operations, v \in ValueLists : addCriteria(k, o, v)
    \/ \E k \in Keys, o \in Operations \cup {NoOperation} : removeCriteria(k, o)
    \/ \E k \in Keys : removeCriteriaByKey(k)
    \/ \E k \in Keys, o \in Operations, v \in ValueLists : upsertCriteria(k, o, v)
    \/ clearCriteria
    \/ \E k \in Keys, o \in Operations \cup {NoOperation} : getCriteriaValues(k, o)
    \/ \E k \in Keys, o \in Operations \cup {NoOperation} : hasCriteria(k, o)

SpecCriteria == InitCriteria /\ [][NextCriteria]_vars

\* the methods that edit the query, on a QueryBuilder constructed without an
\* initial query
NextMutator ==
    \/ \E k \in BuilderKeys, o \in Operations, v \in BuilderValueLists : addCriteria(k, o, v)
    \/ \E k \in BuilderKeys, o \in Operations \cup {NoOperation} : removeCriteria(k, o)
    \/ \E k \in BuilderKeys : removeCriteriaByKey(k)
    \/ \E k \in BuilderKeys, o \in Operations, v \in BuilderValueLists : upsertCriteria(k, o, v)
    \/ \E n \in PageInputs : setPage(n)
    \/ \E n \in PageSizeInputs : setPageSize(n)
    \/ \E f \in SortFields, d \in Directions : setSort(f, d)
    \/ clearSort
    \/ clearCriteria
    \/ clear

SpecMutator == InitCriteria /\ [][NextMutator]_vars

-----------------------------------------------------------------------------
(* The codec on given inputs: toQueryString(query) and parseQueryString(string) *)

\* most criteria in a query given to toQueryString
MaxCodecCriteria == 2

\* keys and values are opaque strings: some hold & = % and white space; one
\* criterion has no value
CodecCriteria ==
    {Criteria("name", "CONTAIN", <<"john">>),
     Criteria("age", "GREATER_THAN", <<"25", "x y">>),
     Criteria("k&v", "EQUAL", <<"a=b&c">>),
     Criteria("tags", "EQUAL", <<"a&&b">>),
     Criteria("rate", "LESS_THAN", <<"100%">>),
     Criteria("empty", "EQUAL", <<>>)}

RECURSIVE SeqsUpTo(_, _)
\* the sequences of at most n elements of S
SeqsUpTo(S, n) ==
    IF n = 0 THEN {<<>>}
    ELSE LET shorter == SeqsUpTo(S, n - 1)
         IN  shorter \cup {Append(q, x) : q \in shorter, x \in S}

\* projection, sort and paging of the queries given to toQueryString: all
\* absent; all present, with two sort fields and one direction; empty arrays
\* and a negative page; an array with a hole and no page size
CodecShapes ==
    {[DefaultQuery EXCEPT !.page = Undefined, !.pageSize = Undefined],
     [DefaultQuery EXCEPT !.select = Arr(Dense(<<"id", "name">>)),
                          !.selectAs = Arr(Dense(<<"n">>)),
                          !.orderBy = Arr(Dense(<<"age", "id">>)),
                          !.orderByDirection = Arr(Dense(<<"desc">>))],
     [DefaultQuery EXCEPT !.select = Arr(<<>>), !.orderByDirection = Arr(<<>>),
                          !.page = Num(-1)],
     [DefaultQuery EXCEPT !.selectAs = Arr(<<Hole, Elem("a b")>>),
                          !.orderBy = Arr(Dense(<<"id">>)),
                          !.orderByDirection = Arr(Dense(<<"asc", "desc">>)),
                          !.page = Num(12), !.pageSize = Undefined]}

CodecQueries ==
    {[shape EXCEPT !.criteria = c] : shape \in CodecShapes,
                                     c \in SeqsUpTo(CodecCriteria, MaxCodecCriteria)}

\* pieces of query strings: whole and partial criteria of index 0, 1 and 2, a
\* value with an escaped &&, a value that is a lone % once the URL is parsed,
\* an empty key, paging that is no number, projection, sort, unknown names
Fragments ==
    {"key0=age&operation0=EQUAL",
     "values0=10",
     "key1=n&operation1=CONTAIN&values1=x",
     "operation2=EQUAL",
     "values0=a%26%26b",
     "values1=50%25",
     "key0=",
     "page=abc&pageSize=",
     "page=2&pageSize=5x",
     "select1=id",
     "orderBy0=id&orderByDirection0=desc",
     "foo=1&keys0=z"}

RECURSIVE JoinedUpTo(_)
\* the strings made of at most n fragments joined by &
JoinedUpTo(n) ==
    IF n = 0 THEN {""}
    ELSE LET shorter == JoinedUpTo(n - 1)
         IN  shorter \cup {IF t = "" THEN f ELSE t \o "&" \o f : t \in shorter, f \in Fragments}

\* query strings of the documentation
ExampleStrings ==
    {"key0=tags&operation0=EQUAL&values0=a&&b&&c",
     "key0=name&operation0=CONTAIN&values0=john&key1=age&operation1=GREATER_THAN&values1=25",
     "key0=status&operation0=EQUAL&values0=ACTIVE&page=0&pageSize=20&orderBy0=createdAt&orderByDirection0=desc",
     "select0=id&selectAs0=ident",
     "orderByDirection1=asc&pageSize=-3"}

\* query strings whose values hold an escaped % sign: the value is x%41, and
\* %26%26, once the URL is parsed
EscapedPercentStrings ==
    {"key0=code&operation0=EQUAL&values0=x%2541",
     "key0=code&operation0=EQUAL&values0=10&values0=%2526%2526"}

QueryStrings == JoinedUpTo(MaxParams) \cup ExampleStrings \cup EscapedPercentStrings

\* toQueryString(query) builds a QueryBuilder on the given query;
\* parseQueryString(string) builds one without an initial query
InitCodec ==
    /\ \/ query \in CodecQueries /\ qs = ""
       \/ query = DefaultQuery /\ qs \in QueryStrings
    /\ thrown = FALSE
    /\ last = "constructor"
    /\ ret = NoReturn
    /\ NoHeap
    /\ NoTable

NextCodec ==
    \/ ToQueryString
    \/ FromQueryString

SpecCodec == InitCodec /\ [][NextCodec]_vars

\* most fragments in a query string that is decoded with and without one
\* more parameter
MaxBaseParams == 2

\* parseQueryString(string) on the shorter strings
InitParse ==
    /\ query = DefaultQuery
    /\ qs \in JoinedUpTo(MaxBaseParams) \cup ExampleStrings
    /\ thrown = FALSE
    /\ last = "constructor"
    /\ ret = NoReturn
    /\ NoHeap
    /\ NoTable

SpecParse == InitParse /\ [][NextCodec]_vars

-----------------------------------------------------------------------------
(* Several QueryBuilder instances: _dynamicQuery is a reference to an object *)

\* the instances a caller holds: A, and B made from A.query or on its own
Builders == {"A", "B"}

\* identities of DynamicQuery objects: one more than instances, so that an
\* object can be created while every instance still refers to one
ObjectIds == 1..(Cardinality(Builders) + 1)

\* the objects some instance of own refers to; the others are unreachable
Reachable(objs, own) == [id \in {own[b] : b \in DOMAIN own} |-> objs[id]]

\* the identity given to an object literal
FreshId(objs) ==
    CHOOSE id \in ObjectIds \ DOMAIN objs : \A other \in ObjectIds \ DOMAIN objs : id <= other

\* get query(): the object the instance refers to
QueryOf(b) == objects[owner[b]]

\* "this._dynamicQuery = initialQuery || { ... }": the instance refers to the
\* object it is given, or to a new object
Construct(b, given, op) ==
    LET id == IF given \in DOMAIN objects THEN given ELSE FreshId(objects)
        objs == IF given \in DOMAIN objects THEN objects ELSE (id :> DefaultQuery) @@ objects
        own == (b :> id) @@ owner
    IN  /\ owner' = own
        /\ objects' = Reachable(objs, own)
        /\ last' = op
        /\ UNCHANGED <<query, qs, thrown, ret, tableVars>>

\* b = new QueryBuilder()
NewQueryBuilder(b) == Construct(b, 0, "constructor")

\* b = new QueryBuilder(a.query)
NewQueryBuilderFrom(b, a) ==
    /\ a \in DOMAIN owner
    /\ a # b
    /\ Construct(b, owner[a], "constructor")

\* a method of instance b that edits the object b refers to: push on its
\* criteria, or an assignment to one of its fields
EditThrough(b, q, op) ==
    /\ b \in DOMAIN owner
    /\ objects' = [objects EXCEPT ![owner[b]] = q]
    /\ last' = op
    /\ UNCHANGED <<owner, query, qs, thrown, ret, tableVars>>

\* a method of instance b that assigns a new object to this._dynamicQuery
ReplaceThrough(b, q, op) ==
    /\ b \in DOMAIN owner
    /\ LET id == FreshId(objects)
           own == [owner EXCEPT ![b] = id]
       IN  /\ owner' = own
           /\ objects' = Reachable((id :> q) @@ objects, own)
    /\ last' = op
    /\ UNCHANGED <<query, qs, thrown, ret, tableVars>>

AliasOperations == {"EQUAL"}

AliasPages == {3}

AliasPageSizes == {0}

addCriteriaThrough(b) ==
    /\ b \in DOMAIN owner
    /\ Len(QueryOf(b).criteria) < MaxCriteria
    /\ \E k \in BuilderKeys, o \in AliasOperations, v \in BuilderValueLists :
          EditThrough(b, addCriteriaTo(QueryOf(b), k, o, v), "addCriteria")

removeCriteriaThrough(b) ==
    /\ b \in DOMAIN owner
    /\ \E k \in BuilderKeys, o \in AliasOperations \cup {NoOperation} :
          EditThrough(b, removeCriteriaFrom(QueryOf(b), k, o), "removeCriteria")

setPageThrough(b) ==
    /\ b \in DOMAIN owner
    /\ \E n \in AliasPages : EditThrough(b, [QueryOf(b) EXCEPT !.page = Num(n)], "setPage")

setPageSizeThrough(b) ==
    /\ b \in DOMAIN owner
    /\ \E n \in AliasPageSizes :
          EditThrough(b, [QueryOf(b) EXCEPT !.pageSize = Num(n)], "setPageSize")

setSortThrough(b) ==
    /\ b \in DOMAIN owner
    /\ \E f \in {"id"}, d \in {"desc"} : EditThrough(b, setSortOf(QueryOf(b), f, d), "setSort")

clearSortThrough(b) ==
    /\ b \in DOMAIN owner
    /\ EditThrough(b, clearSortOf(QueryOf(b)), "clearSort")

clearCriteriaThrough(b) ==
    /\ b \in DOMAIN owner
    /\ EditThrough(b, [QueryOf(b) EXCEPT !.criteria = <<>>], "clearCriteria")

clearThrough(b) == ReplaceThrough(b, ClearedQuery, "clear")

\* A = new QueryBuilder()
InitAlias ==
    /\ objects = (1 :> DefaultQuery)
    /\ owner = ("A" :> 1)
    /\ query = DefaultQuery
    /\ qs = ""
    /\ thrown = FALSE
    /\ last = "constructor"
    /\ ret = NoReturn
    /\ NoTable

NextAlias ==
    \/ \E b \in Builders : NewQueryBuilder(b)
    \/ \E a \in Builders, b \in Builders : NewQueryBuilderFrom(b, a)
    \/ \E b \in Builders : addCriteriaThrough(b)
    \/ \E b \in Builders : removeCriteriaThrough(b)
    \/ \E b \in Builders : setPageThrough(b)
    \/ \E b \in Builders : setPageSizeThrough(b)
    \/ \E b \in Builders : setSortThrough(b)
    \/ \E b \in Builders : clearSortThrough(b)
    \/ \E b \in Builders : clearCriteriaThrough(b)
    \/ \E b \in Builders : clearThrough(b)

SpecAlias == InitAlias /\ [][NextAlias]_vars

\* one of the methods of C11 called on instance b
MutationThrough(b) ==
    \/ addCriteriaThrough(b)
    \/ removeCriteriaThrough(b)
    \/ setPageThrough(b)
    \/ setPageSizeThrough(b)
    \/ setSortThrough(b)
    \/ clearSortThrough(b)
    \/ clearCriteriaThrough(b)

\* C11: two QueryBuilder instances never share one DynamicQuery object: after
\* B = new QueryBuilder(A.query), addCriteria, removeCriteria, setPage,
\* setPageSize, setSort, clearSort or clearCriteria called on one instance
\* leaves the query of the other instance as it was.
C11_NoAliasing ==
    /\ [](\A a \in DOMAIN owner, b \in DOMAIN owner : a # b => owner[a] # owner[b])
    /\ [][\A b \in Builders :
             MutationThrough(b) =>
                 \A c \in DOMAIN owner \ {b} : objects'[owner'[c]] = objects[owner[c]]]_vars

\* C11 witness: B was made from A.query, a method has since been called, and
\* the two instances refer to one object that holds a criterion and page 3
C11_Witness ==
    /\ DOMAIN owner = Builders
    /\ owner["A"] = owner["B"]
    /\ last = "setPage"
    /\ Len(QueryOf("A").criteria) > 0
    /\ QueryOf("B").page = Num(3)

-----------------------------------------------------------------------------
(* DynamicQueryTable: the queryBuilder state, the URL and the handlers *)

\* the props pageSize and defaultSortField of the component, at their defaults
TablePageSize == 20

DefaultSortField == "id"

\* the columns: sortable is "true", "false" or "undefined" (the property not set)
TableFields ==
    {[name |-> "id", type |-> "Integer", sortable |-> "undefined"],
     [name |-> "name", type |-> "String", sortable |-> "true"],
     [name |-> "active", type |-> "Boolean", sortable |-> "false"]}

\* the columns FilterPanel shows a text input for, and those it shows a checkbox for
StringFields == {f \in TableFields : f.type = "String"}

BooleanFields == {f \in TableFields : f.type = "Boolean"}

\* what the user types in a text filter: nothing, or a text
FilterTexts == {"", "jo"}

\* pages the pagination offers, and two of the page sizes of its select
TablePages == {0, 1, 2}

TablePageSizes == {10, 50}

\* the query strings the page is opened with: none; one the component wrote
\* itself; the same parameters in another order; one with a parameter of
\* another application; one whose value is a lone % once parsed
OpeningUrls ==
    {"",
     "orderBy0=name&orderByDirection0=asc&page=2&pageSize=50",
     "page=2&pageSize=50&orderBy0=name&orderByDirection0=asc",
     "key0=name&operation0=CONTAIN&values0=jo&utm=1",
     "key0=rate&operation0=EQUAL&values0=50%25"}

\* the instance held in the state queryBuilder
TableBuilder == "queryBuilder"

\* how many fetchData calls wait for their response at one time
MaxPending == 2

\* the fetches in flight once one more has been issued; newest marks the
\* fetch issued last
Issue(fetches) ==
    Append([i \in 1..Len(fetches) |-> [fetches[i] EXCEPT !.newest = FALSE]], [newest |-> TRUE])

\* fetchData() up to its first await, called with the instance holding q:
\* setLoading(true), and the request for queryBuilder.toQueryString() leaves
fetchData(q) ==
    /\ Len(pending) < MaxPending
    /\ loading' = TRUE
    /\ issued' = toQueryString(q)
    /\ pending' = Issue(pending)
    /\ data' = [data EXCEPT !.newest = FALSE]

\* a sequence without its i-th element
Without(seq, i) == SubSeq(seq, 1, i - 1) \o SubSeq(seq, i + 1, Len(seq))

\* the rest of fetchData() when the response is ok: setData(result), and
\* setLoading(false) in the finally block
FetchResolves(i) ==
    /\ phase = "ready"
    /\ i \in 1..Len(pending)
    /\ data' = [def |-> TRUE, newest |-> pending[i].newest]
    /\ loading' = FALSE
    /\ pending' = Without(pending, i)
    /\ UNCHANGED <<issued, url, phase, builderVars, heapVars, widgetVars>>

\* the rest of fetchData() when fetch rejects or the response is not ok: the
\* catch block logs, and setLoading(false) in the finally block
FetchRejects(i) ==
    /\ phase = "ready"
    /\ i \in 1..Len(pending)
    /\ loading' = FALSE
    /\ pending' = Without(pending, i)
    /\ UNCHANGED <<data, issued, url, phase, builderVars, heapVars, widgetVars>>

\* the first render: useState(new QueryBuilder()), no effect has run yet
MountTable ==
    /\ url \in OpeningUrls
    /\ phase = "mounted"
    /\ objects = (1 :> DefaultQuery)
    /\ owner = (TableBuilder :> 1)
    /\ query = DefaultQuery
    /\ qs = ""
    /\ thrown = FALSE
    /\ last = "constructor"
    /\ ret = NoReturn
    /\ NoFetch

InitTable == MountTable /\ NoWidgets

\* searchParams.toString()
SearchParamsToString(u) == URLSearchParamsToString(URLSearchParams(u))

\* the effects of the first render.  "Initialize query builder from URL": a
\* new instance holding the decoded query, or the defaults, is stored in the
\* state; an URIError of fromQueryString leaves the effect and the component
\* is unmounted.  "Fetch data when query changes" runs for the instance of the
\* first render, and again for the instance the first effect stored.
InitEffect ==
    LET queryString == SearchParamsToString(url)
        r == fromQueryString(queryString)
        defaults == setSortOf([DefaultQuery EXCEPT !.page = Num(0), !.pageSize = Num(TablePageSize)],
                              DefaultSortField, "desc")
        id == FreshId(objects)
        own == [owner EXCEPT ![TableBuilder] = id]
        stored == IF queryString # "" THEN r.query ELSE defaults
    IN  /\ phase = "mounted"
        /\ IF queryString # "" /\ r.thrown
           THEN /\ phase' = "crashed"
                /\ UNCHANGED <<heapVars, fetchVars>>
           ELSE /\ phase' = "ready"
                /\ owner' = own
                /\ objects' = Reachable((id :> stored) @@ objects, own)
                /\ loading' = TRUE
                /\ issued' = toQueryString(stored)
                /\ pending' = Issue(Issue(pending))
                /\ data' = data
        /\ UNCHANGED <<url, builderVars, widgetVars>>

\* the end of every handler: the methods called on queryBuilder have edited
\* its object to q; setQueryBuilder(new QueryBuilder(queryBuilder.query))
\* stores an instance that refers to the same object; updateUrl() replaces the
\* URL by "?" and queryBuilder.toQueryString(); the effect "Fetch data when
\* query changes" runs for the stored instance
StoreAndUpdateUrl(q) ==
    /\ phase = "ready"
    /\ objects' = [objects EXCEPT ![owner[TableBuilder]] = q]
    /\ owner' = owner
    /\ url' = toQueryString(q)
    /\ fetchData(q)
    /\ UNCHANGED <<phase, builderVars, widgetVars>>

\* handleFilterChange: queryBuilder.setPage(0), then store and update
handleFilterChange(q) == StoreAndUpdateUrl([q EXCEPT !.page = Num(0)])

\* FilterPanel.handleStringFilter(field, value) and its onFilterChange()
handleStringFilter(field, value) ==
    /\ phase = "ready"
    /\ handleFilterChange(IF value # ""
                          THEN upsertCriteriaIn(QueryOf(TableBuilder), field.name, "CONTAIN", <<value>>)
                          ELSE removeCriteriaByKeyFrom(QueryOf(TableBuilder), field.name))

\* FilterPanel.handleBooleanFilter(field, checked) and its onFilterChange()
handleBooleanFilter(field, checked) ==
    /\ phase = "ready"
    /\ handleFilterChange(IF checked
                          THEN upsertCriteriaIn(QueryOf(TableBuilder), field.name, "SPECIFIED", <<"true">>)
                          ELSE removeCriteriaByKeyFrom(QueryOf(TableBuilder), field.name))

\* Pagination is rendered once a response is displayed
handlePageChange(page) ==
    /\ phase = "ready"
    /\ data.def
    /\ StoreAndUpdateUrl([QueryOf(TableBuilder) EXCEPT !.page = Num(page)])

\* handlePageSizeChange as it would be without queryBuilder.setPage(0)
handlePageSizeChangeKeepingPage(newPageSize) ==
    /\ phase = "ready"
    /\ data.def
    /\ StoreAndUpdateUrl([QueryOf(TableBuilder) EXCEPT !.pageSize = Num(newPageSize)])

handlePageSizeChange(newPageSize) ==
    /\ phase = "ready"
    /\ data.def
    /\ StoreAndUpdateUrl([QueryOf(TableBuilder) EXCEPT !.pageSize = Num(newPageSize), !.page = Num(0)])

\* array?.[0] of an optional array: <<>> when it is undefined
FirstOf(arr) == IF arr.def /\ Len(arr.items) > 0 THEN arr.items[1] ELSE Hole

\* handleSort as it would be if every click asked for desc
handleSortAlwaysDesc(field) ==
    /\ phase = "ready"
    /\ field.sortable # "false"
    /\ StoreAndUpdateUrl(setSortOf(QueryOf(TableBuilder), field.name, "desc"))

\* handleSort(field): nothing for a field whose sortable is false; otherwise
\* asc when the field is the current sort field with desc, else desc
handleSort(field) ==
    LET q == QueryOf(TableBuilder)
        currentSort == FirstOf(q.orderBy)
        currentDirection == FirstOf(q.orderByDirection)
        newDirection == IF currentSort = Elem(field.name) /\ currentDirection = Elem("desc")
                        THEN "asc" ELSE "desc"
    IN  /\ phase = "ready"
        /\ field.sortable # "false"
        /\ StoreAndUpdateUrl(setSortOf(q, field.name, newDirection))

handleClearFilters ==
    /\ phase = "ready"
    /\ StoreAndUpdateUrl(setSortOf([QueryOf(TableBuilder) EXCEPT !.criteria = <<>>,
                                                                 !.page = Num(0),
                                                                 !.pageSize = Num(TablePageSize)],
                                   DefaultSortField, "desc"))

\* the Refresh button, disabled while loading: fetchData()
Refresh ==
    /\ phase = "ready"
    /\ ~loading
    /\ fetchData(QueryOf(TableBuilder))
    /\ UNCHANGED <<url, phase, builderVars, heapVars, widgetVars>>

\* handleFormSubmit(formData), the onSubmit of Form: fetchData()
handleFormSubmit ==
    /\ phase = "ready"
    /\ fetchData(QueryOf(TableBuilder))
    /\ UNCHANGED <<url, phase, builderVars, heapVars, widgetVars>>

NextTable ==
    \/ InitEffect
    \/ Refresh
    \/ handleFormSubmit
    \/ \E i \in 1..MaxPending : FetchResolves(i)
    \/ \E i \in 1..MaxPending : FetchRejects(i)
    \/ \E f \in StringFields, v \in FilterTexts : handleStringFilter(f, v)
    \/ \E f \in BooleanFields, c \in BOOLEAN : handleBooleanFilter(f, c)
    \/ \E n \in TablePages : handlePageChange(n)
    \/ \E n \in TablePageSizes : handlePageSizeChange(n)
    \/ \E f \in TableFields : handleSort(f)
    \/ handleClearFilters

SpecTable == InitTable /\ [][NextTable]_vars

\* C20: once the initialisation effect has run, with or without a query
\* string in the opening URL, and after every filter, page, page-size, sort
\* and clear-filters handler, the query string of the browser URL is
\* toQueryString() of the query the component holds.
C20_UrlInSync ==
    phase = "ready" => url = toQueryString(QueryOf(TableBuilder))

\* C20 witness: the component is ready, a handler has written the URL, and the
\* query it holds has a criterion and a sort
C20_Witness ==
    /\ phase = "ready"
    /\ url # ""
    /\ url \notin OpeningUrls
    /\ Len(QueryOf(TableBuilder).criteria) > 0
    /\ QueryOf(TableBuilder).orderBy.def

-----------------------------------------------------------------------------
(* Properties of the mutator *)

\* the criteria of cs that do not have both this key and this operation
WithoutPair(cs, key, operation) ==
    SelectSeq(cs, LAMBDA c : ~(c.key = key /\ c.operation = operation))

\* how many criteria of cs have this key and this operation
CountPair(cs, key, operation) ==
    Cardinality({i \in 1..Len(cs) : cs[i].key = key /\ cs[i].operation = operation})

\* C7: upsertCriteria(key, operation, values) removes exactly the criteria
\* whose key and operation both match, keeps every other criterion (also one
\* with the same key and another operation) in its relative order, appends the
\* new criterion last, and leaves exactly one criterion of that key and operation.
C7_UpsertReplacesExactPair ==
    [][\A k \in Keys, o \in Operations, v \in ValueLists :
          upsertCriteria(k, o, v) =>
              /\ query'.criteria = Append(WithoutPair(query.criteria, k, o), Criteria(k, o, v))
              /\ CountPair(query'.criteria, k, o) = 1]_vars

\* C7 witness: an upsert has left three criteria, the new one last, after a
\* criterion of the same key and another operation
C7_Witness ==
    /\ last = "upsertCriteria"
    /\ Len(query.criteria) = 3
    /\ \E i \in 1..2 :
          /\ query.criteria[i].key = query.criteria[3].key
          /\ query.criteria[i].operation # query.criteria[3].operation

-----------------------------------------------------------------------------
(* Properties of the codec *)

\* an optional array with the empty array taken as absent
Normal(arr) == IF arr.def /\ Len(arr.items) > 0 THEN arr ELSE UndefinedArray

\* equality of two queries up to empty optional arrays
SameQuery(a, b) ==
    /\ a.criteria = b.criteria
    /\ Normal(a.select) = Normal(b.select)
    /\ Normal(a.selectAs) = Normal(b.selectAs)
    /\ Normal(a.orderBy) = Normal(b.orderBy)
    /\ Normal(a.orderByDirection) = Normal(b.orderByDirection)
    /\ a.page = b.page
    /\ a.pageSize = b.pageSize

AllValuesNonEmpty(q) == \A i \in 1..Len(q.criteria) : q.criteria[i].values # <<>>

\* C1: round trip.  Decoding the string toQueryString has just returned for a
\* query whose criteria all have a value gives back the same criteria, arrays
\* and paging, whatever characters the keys and values hold.
C1_RoundTrip ==
    [][(last = "toQueryString" /\ last' = "fromQueryString" /\ AllValuesNonEmpty(query))
          => (~thrown' /\ SameQuery(query', query))]_vars

\* C1 witness: a query holding a value with & has been encoded and decoded back
C1_Witness ==
    /\ last = "fromQueryString"
    /\ ~thrown
    /\ Len(query.criteria) = 1
    /\ query.criteria[1] = Criteria("k&v", "EQUAL", <<"a=b&c">>)

\* the names of the parameters of a query string, in order
ParamNames(s) == LET ps == URLSearchParams(s) IN [i \in 1..Len(ps) |-> ps[i].name]

\* prefix0, prefix1, ... prefix(n-1)
Numbered(prefix, n) == [i \in 1..n |-> prefix \o NatToString(i - 1)]

NonEmptyCount(q) == Cardinality({i \in 1..Len(q.criteria) : q.criteria[i].values # <<>>})

\* C2: a criterion without values is not encoded and takes no index: the
\* key{i} and operation{i} parameters of the output are those of the criteria
\* that have a value, numbered 0, 1, 2, ... and no values{i} goes beyond them.
C2_EmptyCriteriaNotEncoded ==
    last = "toQueryString" =>
        LET names == ParamNames(qs)
            n == NonEmptyCount(query)
        IN  /\ SelectSeq(names, LAMBDA x : MatchIndexed(x, KEY_FIELD)) = Numbered(KEY_FIELD, n)
            /\ SelectSeq(names, LAMBDA x : MatchIndexed(x, OPERATION_FIELD))
                   = Numbered(OPERATION_FIELD, n)
            /\ \A j \in 1..Len(names) :
                   MatchIndexed(names[j], VALUES_FIELD) => IndexOfName(names[j], VALUES_FIELD) < n

\* the value of the last parameter prefix{idx} of ps
LastIndexed(ps, prefix, idx) ==
    LET at == {j \in 1..Len(ps) : MatchIndexed(ps[j].name, prefix) /\ IndexOfName(ps[j].name, prefix) = idx}
    IN  ps[CHOOSE j \in at : \A k \in at : k <= j].value

HasIndexed(ps, prefix, idx) ==
    \E j \in 1..Len(ps) : MatchIndexed(ps[j].name, prefix) /\ IndexOfName(ps[j].name, prefix) = idx

\* the criterion indices for which the string supplies a non-empty key, a
\* non-empty operation and at least one values parameter
SuppliedIndices(s) ==
    LET ps == URLSearchParams(s)
        named == {IndexOfName(ps[j].name, KEY_FIELD) :
                      j \in {k \in 1..Len(ps) : MatchIndexed(ps[k].name, KEY_FIELD)}}
    IN  {idx \in named :
            /\ LastIndexed(ps, KEY_FIELD, idx) # ""
            /\ HasIndexed(ps, OPERATION_FIELD, idx)
            /\ LastIndexed(ps, OPERATION_FIELD, idx) # ""
            /\ HasIndexed(ps, VALUES_FIELD, idx)}

RECURSIVE Ascending(_)
\* the elements of a set of numbers in ascending order
Ascending(S) ==
    IF S = {} THEN <<>>
    ELSE LET m == CHOOSE x \in S : \A y \in S : x <= y
         IN  <<m>> \o Ascending(S \ {m})

\* key and operation the string supplies for a criterion index
SuppliedPair(s, idx) ==
    <<LastIndexed(URLSearchParams(s), KEY_FIELD, idx),
      LastIndexed(URLSearchParams(s), OPERATION_FIELD, idx)>>

DecodedPairs(q) == [j \in 1..Len(q.criteria) |-> <<q.criteria[j].key, q.criteria[j].operation>>]

\* C3: the criteria fromQueryString returns are in ascending order of their
\* index, whatever the order of the parameters in the string.
C3_DecodeOrdersByIndex ==
    (last = "fromQueryString" /\ ~thrown) =>
        LET order == Ascending(SuppliedIndices(qs))
        IN  DecodedPairs(query) = [j \in 1..Len(order) |-> SuppliedPair(qs, order[j])]

\* C4: fromQueryString returns for every string; it never throws.
C4_DecodeNeverThrows == last = "fromQueryString" => ~thrown

LegacyString == "key0=tags&operation0=EQUAL&values0=a&&b&&c"

\* C5: decoding key0=tags&operation0=EQUAL&values0=a&&b&&c gives the single
\* criterion tags EQUAL [a, b, c].
C5_LegacyMultiValue ==
    (last = "fromQueryString" /\ qs = LegacyString) =>
        /\ ~thrown
        /\ query.criteria = <<Criteria("tags", "EQUAL", <<"a", "b", "c">>)>>

\* C6: decoding raises no error, and an index gives a criterion if and only if
\* the string supplies its non-empty key, its non-empty operation and a values
\* parameter; the other indices are dropped and change nothing.
C6_PartialCriteriaDropped ==
    last = "fromQueryString" =>
        /\ ~thrown
        /\ Len(query.criteria) = Cardinality(SuppliedIndices(qs))
        /\ {DecodedPairs(query)[j] : j \in 1..Len(query.criteria)}
               = {SuppliedPair(qs, idx) : idx \in SuppliedIndices(qs)}

RECURSIVE Flatten(_)
Flatten(seqs) == IF Len(seqs) = 0 THEN <<>> ELSE Head(seqs) \o Flatten(Tail(seqs))

Param(name, value) == [name |-> name, value |-> value]

\* key{i}, operation{i}, then one values{i} per value
CriterionBlock(c, i) ==
    <<Param("key" \o NatToString(i), c.key), Param("operation" \o NatToString(i), c.operation)>>
    \o Flatten([j \in 1..Len(c.values) |-> <<Param("values" \o NatToString(i), c.values[j])>>])

\* prefix{i} for every element an optional array holds (a hole holds none)
ArrayBlock(prefix, arr) ==
    Flatten([j \in 1..Len(arr.items) |->
                IF arr.items[j] = Hole THEN <<>>
                ELSE <<Param(prefix \o NatToString(j - 1), arr.items[j][1])>>])

PagingBlock(name, v) == IF v = Undefined THEN <<>> ELSE <<Param(name, NumberToString(v))>>

EmissionOrder(q) ==
    Flatten([i \in 1..Len(q.criteria) |-> CriterionBlock(q.criteria[i], i - 1)])
    \o ArrayBlock("select", q.select)
    \o ArrayBlock("selectAs", q.selectAs)
    \o ArrayBlock("orderBy", q.orderBy)
    \o ArrayBlock("orderByDirection", q.orderByDirection)
    \o PagingBlock("page", q.page)
    \o PagingBlock("pageSize", q.pageSize)

HasFamily(s, prefix) ==
    LET ps == URLSearchParams(s) IN \E j \in 1..Len(ps) : MatchIndexed(ps[j].name, prefix)

HasNamed(s, name) == ParamsHas(URLSearchParams(s), name)

ArrayFamilies == {"select", "selectAs", "orderBy", "orderByDirection"}

\* C9: toQueryString writes no parameter of an array that is undefined or
\* empty and none of a paging field that is undefined; fromQueryString leaves
\* an array or a paging field undefined exactly when the string has no
\* parameter of its name family.
C9_AbsentFieldsOmitted ==
    /\ last = "toQueryString" =>
           /\ \A f \in ArrayFamilies : Len(query[f].items) = 0 => ~HasFamily(qs, f)
           /\ \A f \in {"page", "pageSize"} : query[f] = Undefined => ~HasNamed(qs, f)
    /\ (last = "fromQueryString" /\ ~thrown) =>
           /\ \A f \in ArrayFamilies : query[f] = UndefinedArray <=> ~HasFamily(qs, f)
           /\ \A f \in {"page", "pageSize"} : query[f] = Undefined <=> ~HasNamed(qs, f)

\* C9 witness: a query with an empty select array and a negative page has
\* been encoded, without any select parameter, and decoded back
C9_Witness ==
    /\ last = "fromQueryString"
    /\ ~thrown
    /\ qs = "page=-1&pageSize=20"
    /\ query.select = UndefinedArray
    /\ query.page = Num(-1)

\* a decimal integer, with or without a minus sign
IsIntegerText(s) ==
    LET u == IF Len(s) > 0 /\ CharAt(s, 1) = "-" THEN Rest(s, 2) ELSE s
    IN  Len(u) > 0 /\ \A i \in 1..Len(u) : IsDigit(CharAt(u, i))

\* C10: a page or pageSize parameter whose value is not an integer leaves the
\* field undefined, as a missing parameter does.
C10_UnparsablePagingAbsent ==
    (last = "fromQueryString" /\ ~thrown) =>
        \A f \in {"page", "pageSize"} :
            (HasNamed(qs, f) /\ ~IsIntegerText(ParamsGet(URLSearchParams(qs), f)))
                => query[f] = Undefined

-----------------------------------------------------------------------------
(* Properties of the criteria methods *)

\* the criteria of cs whose key is not this key
WithoutKey(cs, key) == SelectSeq(cs, LAMBDA c : c.key # key)

\* C12: removeCriteriaByKey(key) removes every criterion of that key, whatever
\* its operation, and keeps the others in their order; removeCriteria(key)
\* without an operation does the same; removeCriteria(key, operation) removes
\* only the criteria of that key and that operation.
C12_RemoveByKeyAndByPair ==
    [][/\ \A k \in Keys :
             removeCriteriaByKey(k) => query'.criteria = WithoutKey(query.criteria, k)
       /\ \A k \in Keys :
             removeCriteria(k, NoOperation) => query'.criteria = WithoutKey(query.criteria, k)
       /\ \A k \in Keys, o \in Operations :
             removeCriteria(k, o) => query'.criteria = WithoutPair(query.criteria, k, o)]_vars

\* C12 witness: a removal has left criteria of one key only, and before it a
\* removal is possible that tells the key from the pair: some key has criteria
\* of both operations next to a criterion of the other key
C12_Witness ==
    /\ last \in {"removeCriteria", "removeCriteriaByKey"}
    /\ Len(query.criteria) = 2
    /\ query.criteria[1].key = query.criteria[2].key
    /\ query.criteria[1].operation # query.criteria[2].operation

\* C13: addCriteria(key, operation, values) makes the criteria one longer, puts
\* the new criterion last and leaves the earlier ones as they were and where
\* they were, also when the same criterion is already there.
C13_AddAppends ==
    [][\A k \in Keys, o \in Operations, v \in ValueLists :
          addCriteria(k, o, v) =>
              /\ Len(query'.criteria) = Len(query.criteria) + 1
              /\ query'.criteria[Len(query'.criteria)] = Criteria(k, o, v)
              /\ \A i \in 1..Len(query.criteria) : query'.criteria[i] = query.criteria[i]]_vars

\* C13 witness: addCriteria has appended a criterion equal to an earlier one
C13_Witness ==
    /\ last = "addCriteria"
    /\ Len(query.criteria) >= 2
    /\ \E i \in 1..(Len(query.criteria) - 1) :
          query.criteria[i] = query.criteria[Len(query.criteria)]

\* the positions of the criteria of this key and, when one is given, this operation
MatchingPositions(cs, key, operation) ==
    {i \in 1..Len(cs) : cs[i].key = key /\ (operation = NoOperation \/ cs[i].operation = operation)}

RECURSIVE ValuesFrom(_, _, _)
\* the values of the criteria at the positions of S from i on, in position order
ValuesFrom(cs, S, i) ==
    IF i > Len(cs) THEN <<>>
    ELSE (IF i \in S THEN cs[i].values ELSE <<>>) \o ValuesFrom(cs, S, i + 1)

\* C14: getCriteriaValues(key, operation?) returns the values of exactly the
\* matching criteria, in criteria order and in each criterion's order;
\* hasCriteria(key, operation?) is true exactly when a criterion matches;
\* neither call changes the query.
C14_ReadersMatchAndFlatten ==
    [][\A k \in Keys, o \in Operations \cup {NoOperation} :
          /\ getCriteriaValues(k, o) =>
                /\ ret'.values = ValuesFrom(query.criteria, MatchingPositions(query.criteria, k, o), 1)
                /\ query' = query
          /\ hasCriteria(k, o) =>
                /\ ret'.found = (MatchingPositions(query.criteria, k, o) # {})
                /\ query' = query]_vars

\* C14 witness: getCriteriaValues has returned the values of two of three
\* criteria, three values in all, the third criterion not matching
C14_Witness ==
    /\ last = "getCriteriaValues"
    /\ Len(query.criteria) = 3
    /\ Len(ret.values) = 3
    /\ Len(FlatMapValues(query.criteria)) > 3

-----------------------------------------------------------------------------
(* Properties of sort, paging and clear *)

\* orderBy and orderByDirection are both absent or both hold exactly one element
SingleFieldSort(q) ==
    \/ ~q.orderBy.def /\ ~q.orderByDirection.def
    \/ /\ q.orderBy.def /\ q.orderByDirection.def
       /\ Len(q.orderBy.items) = 1 /\ Len(q.orderByDirection.items) = 1
       /\ q.orderBy.items[1] # Hole /\ q.orderByDirection.items[1] # Hole

\* C15: setSort(field, direction) replaces orderBy and orderByDirection by
\* [field] and [direction]; so on a QueryBuilder constructed without an
\* initial query, after any sequence of mutator methods, the two arrays are
\* both absent or both of length one.
C15_SingleFieldSort ==
    /\ []SingleFieldSort(query)
    /\ [][\A f \in SortFields, d \in Directions :
             setSort(f, d) =>
                 /\ query'.orderBy = Arr(<<Elem(f)>>)
                 /\ query'.orderByDirection = Arr(<<Elem(d)>>)]_vars

\* C15 witness: setSort has acted on a query that has criteria and holds one
\* sort field with its direction
C15_Witness ==
    /\ last = "setSort"
    /\ Len(query.criteria) > 0
    /\ query.orderBy = Arr(<<Elem("name")>>)
    /\ query.orderByDirection = Arr(<<Elem("asc")>>)

\* C16: clear() leaves no criterion, page 0, the default page size and no
\* select, selectAs, orderBy or orderByDirection, which is the query of a
\* QueryBuilder constructed without an argument, whatever came before.
C16_ClearResets ==
    [][clear =>
          /\ query'.criteria = <<>>
          /\ query'.page = Num(0)
          /\ query'.pageSize = Num(DefaultPageSize)
          /\ ~query'.select.def /\ ~query'.selectAs.def
          /\ ~query'.orderBy.def /\ ~query'.orderByDirection.def
          /\ query' = DefaultQuery]_vars

\* C16 witness: clear() has acted and the query is the default one
C16_Witness == last = "clear" /\ query = DefaultQuery /\ qs = ""

QueryFields == {"criteria", "select", "selectAs", "orderBy", "orderByDirection", "page", "pageSize"}

\* the two queries agree on every field outside changed
SameExcept(a, b, changed) == \A f \in QueryFields \ changed : a[f] = b[f]

\* C18: setPage(n) and setPageSize(n) store n as it is, also a negative page
\* and a zero or negative page size, do not throw and change no other field;
\* clearCriteria changes only criteria; setSort and clearSort change only
\* orderBy and orderByDirection.
C18_SettersFrame ==
    [][/\ \A n \in PageInputs :
             setPage(n) =>
                 query'.page = Num(n) /\ ~thrown' /\ SameExcept(query, query', {"page"})
       /\ \A n \in PageSizeInputs :
             setPageSize(n) =>
                 query'.pageSize = Num(n) /\ ~thrown' /\ SameExcept(query, query', {"pageSize"})
       /\ clearCriteria => SameExcept(query, query', {"criteria"})
       /\ \A f \in SortFields, d \in Directions :
             setSort(f, d) => SameExcept(query, query', {"orderBy", "orderByDirection"})
       /\ clearSort => SameExcept(query, query', {"orderBy", "orderByDirection"})]_vars

\* C18 witness: setPageSize has stored a negative page size in a query that
\* keeps a negative page, a criterion and a sort
C18_Witness ==
    /\ last = "setPageSize"
    /\ query.pageSize = Num(-5)
    /\ query.page = Num(-1)
    /\ Len(query.criteria) > 0
    /\ query.orderBy.def

-----------------------------------------------------------------------------
(* Further properties of the codec *)

FamilyName(name, prefix) ==
    /\ Len(name) > Len(prefix)
    /\ SubSeq(name, 1, Len(prefix)) = prefix
    /\ \A i \in (Len(prefix) + 1)..Len(name) :
          CharAt(name, i) \in {"0", "1", "2", "3", "4", "5", "6", "7", "8", "9"}

\* the names of the format
Recognised(name) ==
    \/ name \in {"page", "pageSize"}
    \/ \E prefix \in {"key", "operation", "values",
                      "select", "selectAs", "orderBy", "orderByDirection"} :
          FamilyName(name, prefix)

\* parameters a later version of the format could add: another family, a
\* family name with a letter after the digits, a family name without digits
\* holding a lone %, another case
ExtraParams ==
    {p \in {[name |-> "foo", value |-> "1"],
            [name |-> "key1a", value |-> "zip"],
            [name |-> "values", value |-> "50%"],
            [name |-> "Page", value |-> "7"]} : ~Recognised(p.name)}

RECURSIVE JoinPieces(_)
JoinPieces(pieces) ==
    IF Len(pieces) = 0 THEN ""
    ELSE IF Len(pieces) = 1 THEN pieces[1]
    ELSE pieces[1] \o "&" \o JoinPieces(Tail(pieces))

\* the pieces of a query string, one per parameter
Pieces(s) == IF s = "" THEN <<>> ELSE Split(s, "&")

\* the query string s with the parameter p put after its first i pieces
InsertParam(s, p, i) ==
    LET pieces == Pieces(s)
    IN  JoinPieces(SubSeq(pieces, 1, i)
                   \o <<URLSearchParamsToString(<<p>>)>>
                   \o SubSeq(pieces, i + 1, Len(pieces)))

\* C19: a parameter whose name is none of key{i}, operation{i}, values{i},
\* select{i}, selectAs{i}, orderBy{i}, orderByDirection{i}, page, pageSize is
\* ignored: put at any position of a query string, it does not change what
\* fromQueryString does with that string.
C19_UnknownParamsIgnored ==
    [][FromQueryString =>
          \A p \in ExtraParams, i \in 0..Len(Pieces(qs)) :
              LET r == fromQueryString(InsertParam(qs, p, i))
              IN  /\ r.thrown = thrown'
                  /\ ~r.thrown => r.query = query']_vars

\* C19 witness: fromQueryString has decoded a string of several parameters
\* into a query that has a criterion, a sort and a page
C19_Witness ==
    /\ last = "fromQueryString"
    /\ ~thrown
    /\ Len(Pieces(qs)) >= 5
    /\ Len(query.criteria) > 0
    /\ query.orderBy.def
    /\ query.page.kind = "number"

-----------------------------------------------------------------------------
(* The wire form of several values *)

\* the parameters of the string s that are named name, in order
ParamsNamed(s, name) == SelectSeq(URLSearchParams(s), LAMBDA p : p.name = name)

\* C21: toQueryString writes a criterion that has several values as one
\* values{i} parameter, whose value is the values joined with && .
C21_ValuesJoinedOnWire ==
    last = "toQueryString" =>
        \A i \in 1..Len(query.criteria) :
            Len(query.criteria[i].values) >= 2 =>
                ParamsNamed(qs, "values" \o NatToString(i - 1))
                    = <<[name |-> "values" \o NatToString(i - 1),
                         value |-> JoinValues(query.criteria[i].values)]>>

\* C21 witness: toQueryString has returned the string of a query whose first
\* criterion has two values
C21_Witness ==
    /\ last = "toQueryString"
    /\ Len(query.criteria) > 0
    /\ Len(query.criteria[1].values) = 2
    /\ Len(ParamsNamed(qs, "values0")) > 0

\* the index a parameter name of the family prefix carries
FamilyIndex(name, prefix) == DigitsValue(Rest(name, Len(prefix) + 1), 0)

RECURSIVE FirstMentions(_, _)
\* the criterion indices the parameters ps name, each once, in the order of
\* their first key, operation or values parameter
FirstMentions(ps, seen) ==
    IF Len(ps) = 0 THEN <<>>
    ELSE LET n == Head(ps).name
             hit == {prefix \in {"key", "operation", "values"} : FamilyName(n, prefix)}
             idx == FamilyIndex(n, CHOOSE prefix \in hit : TRUE)
         IN  IF hit = {} \/ idx \in seen THEN FirstMentions(Tail(ps), seen)
             ELSE <<idx>> \o FirstMentions(Tail(ps), seen \cup {idx})

RECURSIVE PiecesInOrder(_, _)
\* the pieces, cut at &&, of the values of the values{idx} parameters of the
\* parsed string ps, in the order of the parameters
PiecesInOrder(ps, idx) ==
    IF Len(ps) = 0 THEN <<>>
    ELSE (IF FamilyName(Head(ps).name, "values") /\ FamilyIndex(Head(ps).name, "values") = idx
          THEN Split(Head(ps).value, "&&")
          ELSE <<>>)
         \o PiecesInOrder(Tail(ps), idx)

\* C23: the values of each decoded criterion are the pieces of the
\* percent-decoded values of its values{i} parameters, cut at && and taken in
\* the order the parameters appear in the string; a value without && gives
\* one element, equal to that value.
C23_ValuesInEncounterOrder ==
    (last = "fromQueryString" /\ ~thrown) =>
        LET ps == URLSearchParams(qs)
            order == SelectSeq(FirstMentions(ps, {}), LAMBDA idx : idx \in SuppliedIndices(qs))
        IN  /\ Len(query.criteria) = Len(order)
            /\ \A j \in 1..Len(order) :
                  query.criteria[j].values = PiecesInOrder(ps, order[j])

\* C23 witness: fromQueryString has returned a criterion whose three values
\* come from two values0 parameters, one of them holding an escaped &&
C23_Witness ==
    /\ last = "fromQueryString"
    /\ ~thrown
    /\ Len(ParamsNamed(qs, "values0")) = 2
    /\ Len(query.criteria) > 0
    /\ query.criteria[1].values \in {<<"10", "a", "b">>, <<"a", "b", "10">>}

-----------------------------------------------------------------------------
(* Properties of DynamicQueryTable *)

\* the sort of the query the component holds is this field, this direction
SortIs(field, direction) ==
    /\ QueryOf(TableBuilder).orderBy = Arr(<<Elem(field)>>)
    /\ QueryOf(TableBuilder).orderByDirection = Arr(<<Elem(direction)>>)

\* C22: a click on the header of a column whose sortable is not true, be it
\* false or not set, leaves orderBy, orderByDirection and the URL as they
\* were; only a column with sortable = true changes the sort.
C22_SortableOffByDefault ==
    [][\A f \in TableFields :
          (handleSort(f) /\ f.sortable # "true") =>
              /\ QueryOf(TableBuilder)'.orderBy = QueryOf(TableBuilder).orderBy
              /\ QueryOf(TableBuilder)'.orderByDirection = QueryOf(TableBuilder).orderByDirection
              /\ url' = url]_vars

\* C22 witness: the component sorts by id, ascending, which only a click on
\* the column id, whose sortable is not set, can ask for
C22_Witness ==
    /\ phase = "ready"
    /\ SortIs("id", "asc")
    /\ ParamsNamed(url, "orderBy0") = <<[name |-> "orderBy0", value |-> "id"]>>

\* where the text t stands in s as a whole parameter or as the start of one
ParamStarts(s, t) ==
    {i \in 1..(Len(s) - Len(t) + 1) :
        /\ SubSeq(s, i, i + Len(t) - 1) = t
        /\ i = 1 \/ SubSeq(s, i - 1, i - 1) = "&"}

\* the query string s has one parameter named page, and it reads page=p
HasPage(s, p) ==
    LET t == "page=" \o NatToString(p)
    IN  \E i \in ParamStarts(s, "page=") :
            /\ ParamStarts(s, "page=") = {i}
            /\ i \in ParamStarts(s, t)
            /\ i + Len(t) - 1 = Len(s) \/ SubSeq(s, i + Len(t), i + Len(t)) = "&"

\* the step leaves page p in the query of the stored instance, in the URL
\* written and in the request of the fetch it issues
PageEverywhere(p) ==
    /\ QueryOf(TableBuilder)'.page = Num(p)
    /\ HasPage(url', p)
    /\ HasPage(issued', p)
    /\ Len(pending') = Len(pending) + 1

\* C24: every filter change, every page-size change and every Clear Filters
\* leaves page 0 in the query of the instance stored in the state, in the URL
\* written and in the fetch issued next; handlePageChange(p) sets page to p
\* and changes nothing else in the query.
C24_PageResets ==
    [][/\ \A f \in StringFields, v \in FilterTexts : handleStringFilter(f, v) => PageEverywhere(0)
       /\ \A f \in BooleanFields, c \in BOOLEAN : handleBooleanFilter(f, c) => PageEverywhere(0)
       /\ \A n \in TablePageSizes : handlePageSizeChange(n) => PageEverywhere(0)
       /\ handleClearFilters => PageEverywhere(0)
       /\ \A n \in TablePages :
              handlePageChange(n) =>
                  /\ PageEverywhere(n)
                  /\ QueryOf(TableBuilder)' = [QueryOf(TableBuilder) EXCEPT !.page = Num(n)]]_vars

\* C24 witness: a page-size change has left page size 10 and page 0 in the
\* query, the URL and the request, under a sort only the opening URL at page 2 gives
C24_Witness ==
    /\ phase = "ready"
    /\ QueryOf(TableBuilder).pageSize = Num(10)
    /\ QueryOf(TableBuilder).page = Num(0)
    /\ HasPage(url, 0)
    /\ issued = url
    /\ pending # <<>>

\* C25: a click on a column that sorts sets asc when that column is the
\* current sort field with direction desc, and desc in every other case; the
\* click leaves one element in orderBy and one in orderByDirection, so
\* repeated clicks on one column alternate desc, asc, desc.
C25_SortToggle ==
    [][\A f \in TableFields :
          handleSort(f) =>
              LET q == QueryOf(TableBuilder)
                  wasDesc == /\ q.orderBy.def /\ Len(q.orderBy.items) > 0
                             /\ q.orderBy.items[1] = Elem(f.name)
                             /\ q.orderByDirection.def /\ Len(q.orderByDirection.items) > 0
                             /\ q.orderByDirection.items[1] = Elem("desc")
              IN  /\ QueryOf(TableBuilder)'.orderBy = Arr(<<Elem(f.name)>>)
                  /\ QueryOf(TableBuilder)'.orderByDirection
                         = Arr(<<Elem(IF wasDesc THEN "asc" ELSE "desc")>>)
                  /\ (q.orderBy = Arr(<<Elem(f.name)>>) /\ q.orderByDirection = Arr(<<Elem("asc")>>))
                         => QueryOf(TableBuilder)'.orderByDirection = Arr(<<Elem("desc")>>)]_vars

\* C25 witness: the component sorts by name, descending, which only a click on
\* the column name gives, and the URL carries it
C25_Witness ==
    /\ phase = "ready"
    /\ SortIs("name", "desc")
    /\ ParamsNamed(url, "orderByDirection0") = <<[name |-> "orderByDirection0", value |-> "desc"]>>

\* C28: under every interleaving of the fetches and their responses, the two
\* fetches of the mount included, a response to a query issued earlier never
\* replaces the response to the query issued last: once the response to the
\* query issued last is displayed, it stays displayed until another query is
\* issued, and it is what is displayed when no fetch is in flight.
C28_NoStaleResponse ==
    [][(data.def /\ data.newest /\ pending' # Issue(pending))
          => (data'.def /\ data'.newest)]_vars

\* C28 witness: no fetch is in flight and the data displayed is the response
\* to a query issued before the last one
C28_Witness ==
    /\ phase = "ready"
    /\ pending = <<>>
    /\ data.def
    /\ ~data.newest

\* C29: loading is true exactly when a fetchData call has started and has not
\* completed, also when several fetches overlap.
C29_LoadingTracksFetches ==
    loading <=> pending # <<>>

\* C29 witness: loading is false while a fetch waits for its response
C29_Witness ==
    /\ phase = "ready"
    /\ ~loading
    /\ pending # <<>>

-----------------------------------------------------------------------------
(* FilterPanel: the panel of DynamicQueryTable that opens, closes and pins *)

\* JSON.stringify and JSON.parse of a boolean
JSONstringify(b) == IF b THEN "true" ELSE "false"

JSONparse(text) == text = "true"

\* localStorage.getItem("filterPinned"): null, or the text stored
NoItem == [present |-> FALSE, value |-> ""]

Item(text) == [present |-> TRUE, value |-> text]

\* what an earlier visit has left in localStorage: nothing, or what togglePin wrote
StoredItems == {NoItem, Item(JSONstringify(TRUE)), Item(JSONstringify(FALSE))}

\* the first render of DynamicQueryTable with its FilterPanel:
\* useState(false) twice, the effect of FilterPanel has not run
InitPanel ==
    /\ MountTable
    /\ panel \in {[isExpanded |-> FALSE, isPinned |-> FALSE, loaded |-> FALSE, stored |-> item] :
                     item \in StoredItems}
    /\ pager = <<>>
    /\ form = <<>>

\* a step of FilterPanel alone
OnlyPanel == UNCHANGED <<builderVars, heapVars, url, phase, fetchVars, pager, form>>

\* the effect "Load pinned state from localStorage"
LoadPinState ==
    LET savedPinState == panel.stored
        pinned == JSONparse(savedPinState.value)
    IN  /\ ~panel.loaded
        /\ panel' = IF savedPinState.present
                     THEN [panel EXCEPT !.loaded = TRUE,
                                        !.isPinned = pinned,
                                        !.isExpanded = IF pinned THEN TRUE ELSE @]
                     ELSE [panel EXCEPT !.loaded = TRUE]
        /\ OnlyPanel

\* toggleExpand: a click on the header of the panel
toggleExpand ==
    /\ panel.loaded
    /\ panel' = IF ~panel.isPinned THEN [panel EXCEPT !.isExpanded = ~panel.isExpanded] ELSE panel
    /\ OnlyPanel

\* togglePin as it would be without setIsExpanded(true)
togglePinWithoutOpening ==
    LET newPinState == ~panel.isPinned
    IN  /\ panel.loaded
        /\ panel' = [panel EXCEPT !.isPinned = newPinState,
                                   !.stored = Item(JSONstringify(newPinState))]
        /\ OnlyPanel

\* togglePin: a click on the pin
togglePin ==
    LET newPinState == ~panel.isPinned
    IN  /\ panel.loaded
        /\ panel' = [panel EXCEPT !.isPinned = newPinState,
                                   !.isExpanded = IF newPinState THEN TRUE ELSE @,
                                   !.stored = Item(JSONstringify(newPinState))]
        /\ OnlyPanel

\* the effects of a child run before those of its parent; the filter inputs
\* are rendered while the panel is open
NextPanel ==
    \/ LoadPinState
    \/ panel.loaded /\ InitEffect
    \/ toggleExpand
    \/ togglePin
    \/ \E f \in StringFields, v \in FilterTexts : panel.isExpanded /\ handleStringFilter(f, v)
    \/ \E f \in BooleanFields, c \in BOOLEAN : panel.isExpanded /\ handleBooleanFilter(f, c)
    \/ \E i \in 1..MaxPending : FetchResolves(i)
    \/ \E i \in 1..MaxPending : FetchRejects(i)

SpecPanel == InitPanel /\ [][NextPanel]_vars

\* the pin state the item of localStorage stands for: what the load effect
\* would restore from it
StoredPinState(item) == item.present /\ JSONparse(item.value)

\* C26: once the pin state has been loaded from localStorage, a pinned panel
\* is open and the stored pin state is isPinned; toggleExpand changes nothing
\* while the panel is pinned; togglePin inverts the pin state, opens the panel
\* when it pins, and writes the new pin state to localStorage.
C26_PinnedPanelOpen ==
    /\ [](panel.loaded =>
             /\ panel.isPinned => panel.isExpanded
             /\ StoredPinState(panel.stored) = panel.isPinned
             /\ panel.stored.present => panel.stored.value = JSONstringify(panel.isPinned))
    /\ [][(toggleExpand /\ panel.isPinned) => panel' = panel]_vars
    /\ [][togglePin =>
             /\ panel'.isPinned = ~panel.isPinned
             /\ panel'.isPinned => panel'.isExpanded
             /\ panel'.stored = Item(JSONstringify(panel'.isPinned))]_vars

\* C26 witness: the panel was closed and not pinned on an empty localStorage,
\* and is now pinned, open, with the pin state stored, and a filter set
C26_Witness ==
    /\ panel.loaded
    /\ panel.isPinned
    /\ panel.isExpanded
    /\ panel.stored = Item("true")
    /\ phase = "ready"
    /\ Len(QueryOf(TableBuilder).criteria) = 2

-----------------------------------------------------------------------------
(* Pagination: the strip of page numbers and its buttons *)

\* the largest totalPages of a response
MaxTotalPages == 10

\* an entry of the array getPageNumbers returns: a page number, or "..."
PageEntry(n) == [kind |-> "page", n |-> n]

Ellipsis == [kind |-> "...", n |-> 0]

\* for (let i = from; i <= to; i++) pages.push(i)
PushRange(from, to) == [i \in 1..(to - from + 1) |-> PageEntry(from + i - 1)]

\* getPageNumbers(), for the props page.number and page.totalPages
getPageNumbers(currentPage, totalPages) ==
    LET maxVisible == 7
    IN  IF totalPages <= maxVisible
        THEN PushRange(0, totalPages - 1)
        ELSE <<PageEntry(0)>> \o
             (IF currentPage <= 3
              THEN PushRange(1, 5) \o <<Ellipsis, PageEntry(totalPages - 1)>>
              ELSE IF currentPage >= totalPages - 4
              THEN <<Ellipsis>> \o PushRange(totalPages - 6, totalPages - 1)
              ELSE <<Ellipsis>> \o PushRange(currentPage - 1, currentPage + 1)
                       \o <<Ellipsis, PageEntry(totalPages - 1)>>)

\* the responses Pagination is rendered for: a page of a result of 1 to
\* MaxTotalPages pages
PageProps ==
    {[number |-> c, totalPages |-> t] : t \in 1..MaxTotalPages, c \in 0..(MaxTotalPages - 1)}

\* Pagination rendered for a response; no button has been clicked
Rendered(props) == [number |-> props.number, totalPages |-> props.totalPages, requested |-> Undefined]

InitPagination ==
    /\ pager \in {Rendered(props) : props \in {pr \in PageProps : pr.number < pr.totalPages}}
    /\ query = DefaultQuery
    /\ qs = ""
    /\ thrown = FALSE
    /\ last = "constructor"
    /\ ret = NoReturn
    /\ NoHeap
    /\ url = ""
    /\ phase = "none"
    /\ NoFetch
    /\ panel = <<>>
    /\ form = <<>>

\* a step of Pagination alone
OnlyPager == UNCHANGED <<builderVars, heapVars, url, phase, fetchVars, panel, form>>

\* onPageChange(page), the prop a button calls
onPageChange(page) ==
    /\ pager' = [pager EXCEPT !.requested = Num(page)]
    /\ OnlyPager

\* the button Previous, disabled={currentPage === 0}
ClickPrevious ==
    /\ ~(pager.number = 0)
    /\ onPageChange(pager.number - 1)

\* the button Next, disabled={currentPage >= totalPages - 1}
ClickNext ==
    /\ ~(pager.number >= pager.totalPages - 1)
    /\ onPageChange(pager.number + 1)

\* the button of one of the page numbers shown
ClickPage(idx) ==
    LET pages == getPageNumbers(pager.number, pager.totalPages)
    IN  /\ idx \in 1..Len(pages)
        /\ pages[idx] # Ellipsis
        /\ onPageChange(pages[idx].n)

\* the parent renders Pagination for the response to the page asked for
Rerender(totalPages) ==
    /\ pager.requested # Undefined
    /\ pager.requested.n < totalPages
    /\ pager' = Rendered([number |-> pager.requested.n, totalPages |-> totalPages])
    /\ OnlyPager

NextPagination ==
    \/ ClickPrevious
    \/ ClickNext
    \/ \E idx \in 1..(MaxTotalPages + 2) : ClickPage(idx)
    \/ \E t \in 1..MaxTotalPages : Rerender(t)

SpecPagination == InitPagination /\ [][NextPagination]_vars

\* the page numbers among the entries, in order
PageNumbersOf(pages) ==
    LET shown == SelectSeq(pages, LAMBDA e : e # Ellipsis)
    IN  [i \in 1..Len(shown) |-> shown[i].n]

\* C27: for every totalPages >= 1 and every currentPage in 0..totalPages-1,
\* the page numbers getPageNumbers returns are strictly ascending, lie in
\* 0..totalPages-1 and contain 0, totalPages-1 and currentPage; for
\* totalPages <= 7 they are all the pages and there is no ellipsis, otherwise
\* they are exactly 7, and an ellipsis stands only between two numbers shown
\* that are not adjacent; Previous is disabled at page 0 and Next at the last
\* page, so the page a button asks for lies in 0..totalPages-1.
C27_PageStrip ==
    LET pages == getPageNumbers(pager.number, pager.totalPages)
        nums == PageNumbersOf(pages)
        last_ == pager.totalPages - 1
    IN  /\ \A i \in 1..(Len(nums) - 1) : nums[i] < nums[i + 1]
        /\ \A i \in 1..Len(nums) : nums[i] \in 0..last_
        /\ {0, last_, pager.number} \subseteq {nums[i] : i \in 1..Len(nums)}
        /\ pager.totalPages <= 7 => pages = PushRange(0, last_)
        /\ pager.totalPages > 7 => Len(nums) = 7
        /\ \A i \in 1..Len(pages) :
               pages[i] = Ellipsis =>
                   /\ 1 < i /\ i < Len(pages)
                   /\ pages[i - 1] # Ellipsis /\ pages[i + 1] # Ellipsis
                   /\ pages[i + 1].n > pages[i - 1].n + 1
        /\ pager.requested # Undefined => pager.requested.n \in 0..last_

\* C27 witness: more than 7 pages, the current page in the middle, and fewer
\* than 7 page numbers in the strip
C27_Witness ==
    /\ pager.totalPages > 7
    /\ pager.number > 3
    /\ pager.number < pager.totalPages - 4
    /\ Len(PageNumbersOf(getPageNumbers(pager.number, pager.totalPages))) = 5

-----------------------------------------------------------------------------
(* Form: the dialog that creates or edits a record *)

\* the editable fields of the form and the values typed in them
FormFieldNames == {"name", "email"}

FormValues == {"a", "b"}

\* formData[field.name] of a field without a value: undefined
NoValue == ""

\* the prop data: no record (a new record), or the record edited
NoRecord == [def |-> FALSE, row |-> [f \in FormFieldNames |-> NoValue]]

Record(row) == [def |-> TRUE, row |-> row]

FormRecords == {NoRecord, Record([f \in FormFieldNames |-> "a"])}

\* the form once the effect "Initialize form data" has run: formData is the
\* record, or the default values (no field here has one); called is the prop
\* or console method the last step called, pending the onSubmit calls that
\* have not settled
Opened(record) ==
    [data |-> record,
     open |-> TRUE,
     formData |-> record.row,
     modifiedFields |-> {},
     isSubmitting |-> FALSE,
     pending |-> 0,
     called |-> "none"]

InitForm ==
    /\ form \in {Opened(record) : record \in FormRecords}
    /\ query = DefaultQuery
    /\ qs = ""
    /\ thrown = FALSE
    /\ last = "constructor"
    /\ ret = NoReturn
    /\ NoHeap
    /\ url = ""
    /\ phase = "none"
    /\ NoFetch
    /\ panel = <<>>
    /\ pager = <<>>

\* a step of Form alone
OnlyForm == UNCHANGED <<builderVars, heapVars, url, phase, fetchVars, panel, pager>>

\* handleFieldChange(fieldName, value)
handleFieldChange(fieldName, value) ==
    /\ form.open
    /\ form' = [form EXCEPT !.formData = [@ EXCEPT ![fieldName] = value],
                             !.modifiedFields = @ \cup {fieldName},
                             !.called = "none"]
    /\ OnlyForm

\* handleRollback, the button shown for a record with modified fields
handleRollback ==
    /\ form.open
    /\ form.data.def
    /\ form.modifiedFields # {}
    /\ form' = [form EXCEPT !.formData = form.data.row,
                             !.modifiedFields = {},
                             !.called = "none"]
    /\ OnlyForm

\* handleSubmit up to its await, from the submit button, disabled={isSubmitting}
handleSubmit ==
    /\ form.open
    /\ ~form.isSubmitting
    /\ form' = [form EXCEPT !.isSubmitting = TRUE,
                             !.pending = @ + 1,
                             !.called = "onSubmit"]
    /\ OnlyForm

\* the rest of handleSubmit when onSubmit resolves: onClose(), and
\* setIsSubmitting(false) in the finally block
SubmitResolves ==
    /\ form.pending > 0
    /\ form' = [form EXCEPT !.open = FALSE,
                             !.isSubmitting = FALSE,
                             !.pending = @ - 1,
                             !.called = "onClose"]
    /\ OnlyForm

\* the rest of handleSubmit as it would be with onClose() in the finally block
SubmitRejectsAndCloses ==
    /\ form.pending > 0
    /\ form' = [form EXCEPT !.open = FALSE,
                             !.isSubmitting = FALSE,
                             !.pending = @ - 1,
                             !.called = "onClose"]
    /\ OnlyForm

\* the rest of handleSubmit when onSubmit rejects: console.error in the catch
\* block, and setIsSubmitting(false) in the finally block
SubmitRejects ==
    /\ form.pending > 0
    /\ form' = [form EXCEPT !.isSubmitting = FALSE,
                             !.pending = @ - 1,
                             !.called = "console.error"]
    /\ OnlyForm

\* Dialog onOpenChange={onClose}: the user dismisses the dialog
onOpenChange ==
    /\ form.open
    /\ form' = [form EXCEPT !.open = FALSE, !.called = "onClose"]
    /\ OnlyForm

NextForm ==
    \/ \E f \in FormFieldNames, v \in FormValues : handleFieldChange(f, v)
    \/ handleRollback
    \/ handleSubmit
    \/ SubmitResolves
    \/ SubmitRejects
    \/ onOpenChange

SpecForm == InitForm /\ [][NextForm]_vars

\* C30: handleSubmit sets isSubmitting before it calls onSubmit and clears it
\* when onSubmit has settled; it calls onClose exactly when onSubmit resolves;
\* when onSubmit rejects the error is caught, onClose is not called and
\* formData and modifiedFields stay as they are; the submit button is
\* disabled while isSubmitting, so at most one submission is in flight.
C30_SubmitOutcome ==
    /\ [](form.pending <= 1 /\ (form.isSubmitting <=> form.pending = 1))
    /\ [][handleSubmit => (~form.isSubmitting /\ form'.isSubmitting /\ form'.called = "onSubmit")]_vars
    /\ [][SubmitResolves => (~form'.isSubmitting /\ form'.called = "onClose" /\ ~form'.open)]_vars
    /\ [][SubmitRejects =>
             /\ ~form'.isSubmitting
             /\ form'.called # "onClose"
             /\ form'.open = form.open
             /\ form'.formData = form.formData
             /\ form'.modifiedFields = form.modifiedFields]_vars

\* C30 witness: a submission of modified fields has been rejected; the dialog
\* is still open, with the values typed, and can be submitted again
C30_Witness ==
    /\ form.called = "console.error"
    /\ form.open
    /\ ~form.isSubmitting
    /\ form.pending = 0
    /\ form.modifiedFields = FormFieldNames
    /\ form.formData # form.data.row

=============================================================================
